---- MODULE Spec2Model ----
(***************************************************************************)
(* Model of the Function Network Go SDK (sdk.go): the Client facade with   *)
(* its authenticating interceptor, the four unary calls, the streaming     *)
(* ChatCompleteStream call and the generic ResponseStream wrapper.         *)
(*                                                                         *)
(* A Go pointer is modelled as a sequence: Nil is the nil pointer and      *)
(* <<x>> a pointer to x.  The underlying connect.ServerStreamForClient is  *)
(* driven by a script fixed at the start of a behaviour: the chunks the    *)
(* server sends, and how the stream stops after them (cleanly or with a    *)
(* transport error).  A chunk may come without its Response message (an    *)
(* empty message on the wire); reading a field through that nil pointer    *)
(* panics, and the panic unwinds the call in place of a return.  A caller  *)
(* may recover from it and go on using the stream.                         *)
(***************************************************************************)
EXTENDS Integers, Sequences, FiniteSets, TLC

VARIABLES
    options,      \* the ClientOptions handed to NewClient (Nil before the call)
    client,       \* *Client returned by NewClient
    clientErr,    \* error returned by NewClient
    wire,         \* the requests the last operation handed to the transport
    unaryRes,     \* what the last unary operation returned, and what the RPC gave it
    script,       \* chunks the server sends on the streaming call
    ending,       \* how the underlying stream stops once the script is used up
    stream,       \* the connect.ServerStreamForClient of the streaming call
    ccsRes,       \* what ChatCompleteStream returned (Nil before the call)
    isClosed,     \* ResponseStream.isClosed of the returned TokenStream
    lastOp,       \* the last ResponseStream method that returned
    lastRead,     \* what the last Read returned
    lastClosed,   \* what the last IsClosed returned
    lastClose,    \* what the last Close returned, and what the teardown reported
    tokens,       \* the values Read returned with a nil error, in order
    closeCalls,   \* how many times Close has been called
    eofReturned,  \* some Read has returned io.EOF
    reading,      \* "receiving" while a Read is blocked in stream.Receive()
    closing,      \* how far a Close in progress has got ("idle" when none is)
    valueAfterClose  \* some Read returned an element after a Close had returned

vars == <<options, client, clientErr, wire, unaryRes, script, ending, stream,
          ccsRes, isClosed, lastOp, lastRead, lastClosed,
          lastClose, tokens, closeCalls, eofReturned, reading, closing,
          valueAfterClose>>

\* Largest number of chunks the server sends on one streaming call.
MaxChunks == 3

\* Largest number of Close calls a caller makes on one stream.
MaxCloses == 2

Nil == <<>>
NoErr == "nil"
EOF == "io.EOF"
MissingApiKeyError == "missing API key"
TruncatedStreamResponseError == "the stream response was truncated"
TransportErr == "transport error"
SetupErr == "call setup error"
TeardownErr == "teardown error"
\* Not an error value: the outcome of a call that a nil pointer dereference
\* unwound before it could return.
Panic == "panic: nil pointer dereference"
DefaultBaseUrl == "https://api.function.network"
DefaultHttpClient == "http.DefaultClient"
NoHeader == "<unset>"

ApiKeys == {"", "mykey"}
HttpClients == {Nil, <<"custom client">>}
BaseUrls == {"", "https://gateway.test"}
ClientOptions == [ApiKey : ApiKeys, HttpClient : HttpClients, BaseUrl : BaseUrls]

\* Wire chunks of the streaming call: the Response pointer, and behind it
\* Response.Role and Response.Content.
Chunks == {[Response |-> <<[Role |-> "assistant", Content |-> ""]>>],
           [Response |-> <<[Role |-> "user", Content |-> "Hello"]>>],
           [Response |-> Nil]}
Endings == {EOF, TransportErr}
Scripts == UNION {[1..n -> Chunks] : n \in 0..MaxChunks}

RemoteErr == "remote fault"
UnaryOutcomes == {[res |-> <<[Msg |-> <<"message">>]>>, err |-> NoErr],
                  [res |-> Nil, err |-> TransportErr],
                  [res |-> Nil, err |-> RemoteErr]}

(***************************************************************************)
(* Authenticating request layer.                                           *)
(***************************************************************************)

\* connect.NewRequest: a fresh request envelope, no x-api-key header yet.
NewRequest(proc) == [proc |-> proc, xApiKey |-> NoHeader]

\* The closure newAuthInterceptor returns: req.Header().Set("x-api-key", apiKey).
newAuthInterceptor(apiKey, req) == [req EXCEPT !.xApiKey = apiKey]

\* The interceptor is a connect.UnaryInterceptorFunc: connect runs it around
\* unary calls (WrapUnary) and leaves streaming calls as they are
\* (WrapStreamingClient returns its argument).
UnaryInterceptorFunc(kind, apiKey, req) ==
    IF kind = "unary" THEN newAuthInterceptor(apiKey, req) ELSE req

(***************************************************************************)
(* Client construction.                                                    *)
(***************************************************************************)

\* Mutant of NewClient: the empty base URL is rejected like the empty key.
NewClientValidatesBaseUrl(o) ==
    IF o.ApiKey = "" \/ o.BaseUrl = ""
    THEN [client |-> Nil, err |-> MissingApiKeyError]
    ELSE LET httpClient == IF o.HttpClient = Nil THEN DefaultHttpClient
                           ELSE o.HttpClient[1]
             service == [httpClient |-> httpClient, baseUrl |-> o.BaseUrl,
                         interceptorKey |-> o.ApiKey]
         IN  [client |-> <<[apiKey |-> o.ApiKey, service |-> service]>>,
              err |-> NoErr]

NewClient(o) ==
    IF o.ApiKey = ""
    THEN [client |-> Nil, err |-> MissingApiKeyError]
    ELSE LET httpClient == IF o.HttpClient = Nil THEN DefaultHttpClient
                           ELSE o.HttpClient[1]
             baseUrl == IF o.BaseUrl = "" THEN DefaultBaseUrl ELSE o.BaseUrl
             service == [httpClient |-> httpClient, baseUrl |-> baseUrl,
                         interceptorKey |-> o.ApiKey]
         IN  [client |-> <<[apiKey |-> o.ApiKey, service |-> service]>>,
              err |-> NoErr]

(***************************************************************************)
(* The underlying connect.ServerStreamForClient, as the SDK uses it.       *)
(***************************************************************************)

\* The handle CallServerStream returns: nothing received yet.
NewStream == [pos |-> 0, receiveErr |-> NoErr, closeRequests |-> 0]

\* stream.Receive(): advance to the next message.  False when the stream has
\* stopped, at its end or on an error; once stopped it stays stopped.
Receive(s) ==
    IF s.receiveErr # NoErr THEN [ok |-> FALSE, s |-> s]
    ELSE IF s.pos < Len(script)
         THEN [ok |-> TRUE, s |-> [s EXCEPT !.pos = s.pos + 1]]
         ELSE [ok |-> FALSE, s |-> [s EXCEPT !.receiveErr = ending]]

\* stream.Msg(): the message the last successful Receive delivered.
Msg(s) == script[s.pos]

\* stream.Err(): the error that stopped the stream, nil for a clean end.
Err(s) == IF s.receiveErr \in {NoErr, EOF} THEN NoErr ELSE s.receiveErr

(***************************************************************************)
(* ResponseStream: each method as a function of the wrapper's isClosed     *)
(* field and the underlying stream, giving the new field, the underlying   *)
(* stream afterwards and the values returned.                              *)
(***************************************************************************)

\* res.Response.Content: panics when res.Response is nil.
chatCompleteStreamToStringTransformer(res) ==
    IF res.Response = Nil THEN Panic ELSE res.Response[1].Content

\* The zero value of TOut (string).
empty == ""

\* The last statement of Read, after a successful Receive on s: the
\* transformer is applied to stream.Msg(), and its value returned with
\* stream.Err(), unless it panics.
ReadReturn(closed, s) ==
    LET v == chatCompleteStreamToStringTransformer(Msg(s))
    IN  IF v = Panic
        THEN [isClosed |-> closed, stream |-> s, val |-> empty, err |-> Panic]
        ELSE [isClosed |-> closed, stream |-> s, val |-> v, err |-> Err(s)]

wrapStream(s) == [isClosed |-> FALSE, stream |-> s]

IsClosed(closed) == closed

\* Mutant of Read: the underlying stream is advanced before the isClosed check.
ReadReceivesBeforeCheck(closed, s) ==
    LET r == Receive(s)
    IN  IF closed
        THEN [isClosed |-> closed, stream |-> r.s, val |-> empty, err |-> EOF]
        ELSE IF ~r.ok
        THEN [isClosed |-> TRUE, stream |-> r.s, val |-> empty, err |-> EOF]
        ELSE ReadReturn(closed, r.s)

\* Mutant of Read: the isClosed check at its top is missing.
ReadWithoutClosedCheck(closed, s) ==
    LET r == Receive(s)
    IN  IF ~r.ok
        THEN [isClosed |-> TRUE, stream |-> r.s, val |-> empty, err |-> EOF]
        ELSE ReadReturn(closed, r.s)

\* Mutant of Read: the flag follows the last Receive (isClosed = !Receive()).
ReadRecomputesClosed(closed, s) ==
    LET r == Receive(s)
    IN  IF ~r.ok
        THEN [isClosed |-> TRUE, stream |-> r.s, val |-> empty, err |-> EOF]
        ELSE ReadReturn(FALSE, r.s)

\* Mutant of Read: exhaustion returns io.EOF without marking the stream closed.
ReadForgetsClosed(closed, s) ==
    IF closed
    THEN [isClosed |-> closed, stream |-> s, val |-> empty, err |-> EOF]
    ELSE LET r == Receive(s)
         IN  IF ~r.ok
             THEN [isClosed |-> closed, stream |-> r.s, val |-> empty, err |-> EOF]
             ELSE ReadReturn(closed, r.s)

Read(closed, s) ==
    IF closed
    THEN [isClosed |-> closed, stream |-> s, val |-> empty, err |-> EOF]
    ELSE LET r == Receive(s)
         IN  IF ~r.ok
             THEN [isClosed |-> TRUE, stream |-> r.s, val |-> empty, err |-> EOF]
             ELSE ReadReturn(closed, r.s)

\* Mutant of Close: the flag is flipped rather than set.
CloseToggles(closed, s, teardown) ==
    [isClosed |-> ~closed,
     stream |-> [s EXCEPT !.closeRequests = s.closeRequests + 1],
     err |-> teardown]

\* Mutant of Close: an already closed stream is left alone (return nil).
CloseSkipsWhenClosed(closed, s, teardown) ==
    IF closed
    THEN [isClosed |-> TRUE, stream |-> s, err |-> NoErr]
    ELSE [isClosed |-> TRUE,
          stream |-> [s EXCEPT !.closeRequests = s.closeRequests + 1],
          err |-> teardown]

\* Mutant of Close: the stream is marked closed only when the teardown succeeds.
CloseOnlyOnSuccess(closed, s, teardown) ==
    [isClosed |-> IF teardown = NoErr THEN TRUE ELSE closed,
     stream |-> [s EXCEPT !.closeRequests = s.closeRequests + 1],
     err |-> teardown]

\* teardown is what the transport's stream.Close() reports.
Close(closed, s, teardown) ==
    [isClosed |-> TRUE, stream |-> [s EXCEPT !.closeRequests = s.closeRequests + 1],
     err |-> teardown]

(***************************************************************************)
(* Client operations.                                                      *)
(***************************************************************************)

\* Mutant of the unary operations: the RPC error is dropped (return nil, nil).
UnaryCallSwallowsError(c, proc, rpc) ==
    [wire |-> <<UnaryInterceptorFunc("unary", c.service.interceptorKey,
                                     NewRequest(proc))>>,
     ret  |-> IF rpc.err # NoErr
              THEN [proc |-> proc, msg |-> Nil, err |-> NoErr]
              ELSE [proc |-> proc, msg |-> rpc.res[1].Msg, err |-> NoErr]]

\* The body shared by ChatComplete, Embed, TextToImage and Transcribe; rpc is
\* what the service call returns.  wire: the requests it issued, in order.
UnaryCall(c, proc, rpc) ==
    [wire |-> <<UnaryInterceptorFunc("unary", c.service.interceptorKey,
                                     NewRequest(proc))>>,
     ret  |-> IF rpc.err # NoErr
              THEN [proc |-> proc, msg |-> Nil, err |-> rpc.err]
              ELSE [proc |-> proc, msg |-> rpc.res[1].Msg, err |-> NoErr]]

\* The end of ChatCompleteStream, after a successful first Receive left the
\* stream at s: firstMsg.Response.Role is read, which panics when Response
\* is nil, and the stream is wrapped.
StreamResponse(req, firstMsg, s) ==
    IF firstMsg.Response = Nil
    THEN [wire |-> <<req>>, stream |-> <<s>>, resp |-> Nil, err |-> Panic]
    ELSE [wire |-> <<req>>, stream |-> <<wrapStream(s).stream>>,
          resp |-> <<[Role |-> firstMsg.Response[1].Role,
                      TokenStream |-> [isClosed |-> wrapStream(s).isClosed]]>>,
          err |-> NoErr]

\* Mutant of ChatCompleteStream: a failed first Receive returns res.Err().
ChatCompleteStreamReturnsErr(c, setupOk) ==
    LET req == UnaryInterceptorFunc("stream", c.service.interceptorKey,
                                    NewRequest("ChatCompleteStream"))
        r == Receive(NewStream)
    IN  IF ~setupOk
        THEN [wire |-> <<req>>, stream |-> Nil, resp |-> Nil, err |-> SetupErr]
        ELSE IF ~r.ok
        THEN [wire |-> <<req>>, stream |-> <<r.s>>, resp |-> Nil, err |-> Err(r.s)]
        ELSE StreamResponse(req, Msg(r.s), r.s)

\* Mutant of ChatCompleteStream: the role is read off the first chunk, but the
\* TokenStream is wrapped around the stream from its start.
ChatCompleteStreamKeepsHeader(c, setupOk) ==
    LET req == UnaryInterceptorFunc("stream", c.service.interceptorKey,
                                    NewRequest("ChatCompleteStream"))
        r == Receive(NewStream)
    IN  IF ~setupOk
        THEN [wire |-> <<req>>, stream |-> Nil, resp |-> Nil, err |-> SetupErr]
        ELSE IF ~r.ok
        THEN [wire |-> <<req>>, stream |-> <<r.s>>, resp |-> Nil,
              err |-> TruncatedStreamResponseError]
        ELSE StreamResponse(req, Msg(r.s), NewStream)

\* setupOk: whether the service call returned a stream rather than an error.
ChatCompleteStream(c, setupOk) ==
    LET req == UnaryInterceptorFunc("stream", c.service.interceptorKey,
                                    NewRequest("ChatCompleteStream"))
        r == Receive(NewStream)
    IN  IF ~setupOk
        THEN [wire |-> <<req>>, stream |-> Nil, resp |-> Nil, err |-> SetupErr]
        ELSE IF ~r.ok
        THEN [wire |-> <<req>>, stream |-> <<r.s>>, resp |-> Nil,
              err |-> TruncatedStreamResponseError]
        ELSE IF Err(r.s) # NoErr
        THEN [wire |-> <<req>>, stream |-> <<r.s>>, resp |-> Nil, err |-> Err(r.s)]
        ELSE StreamResponse(req, Msg(r.s), r.s)

(***************************************************************************)
(* The state machine: a caller constructs a Client, issues calls, and      *)
(* drives the TokenStream of the one streaming call.                       *)
(***************************************************************************)

\* wrapStream has run: ChatCompleteStream returned a TokenStream.
HasTokenStream == ccsRes # Nil /\ ccsRes[1].resp # Nil

EofResult == [val |-> empty, err |-> EOF]

\* Close has been called at least once.
closeCalled == closeCalls > 0

\* Some call of Close has returned.
closeReturned == lastClose # Nil

Init ==
    /\ options = Nil
    /\ client = Nil
    /\ clientErr = NoErr
    /\ wire = Nil
    /\ unaryRes = Nil
    /\ script \in Scripts
    /\ ending \in Endings
    /\ stream = Nil
    /\ ccsRes = Nil
    /\ isClosed = FALSE
    /\ lastOp = "none"
    /\ lastRead = Nil
    /\ lastClosed = Nil
    /\ lastClose = Nil
    /\ tokens = <<>>
    /\ closeCalls = 0
    /\ eofReturned = FALSE
    /\ reading = "idle"
    /\ closing = "idle"
    /\ valueAfterClose = FALSE

streamVars == <<stream, ccsRes, isClosed, lastOp, lastRead, lastClosed,
                lastClose, tokens, closeCalls, eofReturned, reading, closing,
                valueAfterClose>>

DoNewClient ==
    /\ options = Nil
    /\ \E o \in ClientOptions :
         /\ options' = <<o>>
         /\ client' = NewClient(o).client
         /\ clientErr' = NewClient(o).err
    /\ UNCHANGED <<wire, unaryRes, script, ending, streamVars>>

DoUnary(proc) ==
    /\ client # Nil
    /\ \E rpc \in UnaryOutcomes :
         /\ wire' = UnaryCall(client[1], proc, rpc).wire
         /\ unaryRes' = <<[ret |-> UnaryCall(client[1], proc, rpc).ret,
                           rpc |-> rpc]>>
    /\ UNCHANGED <<options, client, clientErr, script, ending, streamVars>>

ChatComplete == DoUnary("ChatComplete")

Embed == DoUnary("Embed")

TextToImage == DoUnary("TextToImage")

Transcribe == DoUnary("Transcribe")

DoChatCompleteStream ==
    /\ client # Nil
    /\ ccsRes = Nil
    /\ \E setupOk \in BOOLEAN :
         LET out == ChatCompleteStream(client[1], setupOk)
         IN  /\ wire' = out.wire
             /\ stream' = out.stream
             /\ ccsRes' = <<[resp |-> IF out.resp = Nil THEN Nil
                                      ELSE <<[Role |-> out.resp[1].Role]>>,
                             err |-> out.err]>>
             /\ isClosed' = IF out.resp = Nil THEN isClosed
                            ELSE out.resp[1].TokenStream.isClosed
    /\ UNCHANGED <<options, client, clientErr, unaryRes, script, ending, lastOp,
                   lastRead, lastClosed, lastClose, tokens, closeCalls,
                   eofReturned, reading, closing, valueAfterClose>>

\* Mutant of IsClosed: it probes the transport to learn whether it has ended.
DoIsClosedProbes ==
    /\ HasTokenStream
    /\ LET r == Receive(stream[1])
       IN  /\ stream' = <<r.s>>
           /\ isClosed' = (isClosed \/ ~r.ok)
           /\ lastClosed' = <<isClosed \/ ~r.ok>>
    /\ lastOp' = "IsClosed"
    /\ UNCHANGED <<options, client, clientErr, wire, unaryRes, script, ending,
                   ccsRes, lastRead, lastClose, tokens, closeCalls, eofReturned,
                   reading, closing, valueAfterClose>>

DoIsClosed ==
    /\ HasTokenStream
    /\ lastClosed' = <<IsClosed(isClosed)>>
    /\ lastOp' = "IsClosed"
    /\ UNCHANGED <<options, client, clientErr, wire, unaryRes, script, ending,
                   stream, ccsRes, isClosed, lastRead, lastClose, tokens,
                   closeCalls, eofReturned, reading, closing, valueAfterClose>>

DoRead ==
    /\ HasTokenStream
    /\ reading = "idle"
    /\ LET out == Read(isClosed, stream[1])
       IN  /\ isClosed' = out.isClosed
           /\ stream' = <<out.stream>>
           /\ lastRead' = <<[val |-> out.val, err |-> out.err]>>
           /\ tokens' = IF out.err = NoErr THEN Append(tokens, out.val) ELSE tokens
           /\ eofReturned' = (eofReturned \/ out.err = EOF)
           /\ valueAfterClose' =
                  (valueAfterClose \/ (closeReturned /\ out.err = NoErr))
    /\ lastOp' = "Read"
    /\ UNCHANGED <<options, client, clientErr, wire, unaryRes, script, ending,
                   ccsRes, lastClosed, lastClose, closeCalls, reading, closing>>

\* Close from its call to its return, with no other call in between.
DoClose ==
    /\ HasTokenStream
    /\ closing = "idle"
    /\ closeCalls < MaxCloses
    /\ \E teardown \in {NoErr, TeardownErr} :
         LET out == Close(isClosed, stream[1], teardown)
         IN  /\ isClosed' = out.isClosed
             /\ stream' = <<out.stream>>
             /\ lastClose' = <<[err |-> out.err, teardown |-> teardown]>>
    /\ closeCalls' = closeCalls + 1
    /\ lastOp' = "Close"
    /\ UNCHANGED <<options, client, clientErr, wire, unaryRes, script, ending,
                   ccsRes, lastRead, lastClosed, tokens, eofReturned, reading,
                   closing, valueAfterClose>>

Next ==
    \/ DoNewClient
    \/ ChatComplete
    \/ Embed
    \/ TextToImage
    \/ Transcribe
    \/ DoChatCompleteStream
    \/ DoIsClosed
    \/ DoRead
    \/ DoClose

Spec == Init /\ [][Next]_vars

(***************************************************************************)
(* The unary operations and the TokenStream share no state: a unary call   *)
(* leaves the stream as it is and a stream method leaves the Client as it  *)
(* is.  SpecClient is the Client with its five calls; SpecStream is one    *)
(* streaming call and the methods of its TokenStream; SpecLive adds a      *)
(* caller that keeps reading, Read being taken again and again for as long *)
(* as it can be.                                                           *)
(***************************************************************************)

NextClient ==
    \/ DoNewClient
    \/ ChatComplete
    \/ Embed
    \/ TextToImage
    \/ Transcribe
    \/ DoChatCompleteStream

SpecClient == Init /\ [][NextClient]_vars

NextStream ==
    \/ DoNewClient
    \/ DoChatCompleteStream
    \/ DoIsClosed
    \/ DoRead
    \/ DoClose

SpecStream == Init /\ [][NextStream]_vars

SpecLive == Init /\ [][NextStream]_vars /\ WF_vars(DoRead)

(***************************************************************************)
(* Two threads on one TokenStream: one in Read, which checks isClosed and  *)
(* then blocks in stream.Receive(); one calling Close, which sets isClosed *)
(* and then calls into the transport and waits for the teardown.  No lock  *)
(* orders them: each statement of one may run between two statements of    *)
(* the other, and IsClosed at any point.  isClosed is one bool that each   *)
(* statement loads or stores once, so a load sees the latest store.        *)
(***************************************************************************)

\* What a blocked stream.Receive() may meet once the stream was asked to
\* close: the receive side is torn down and the call fails.
Aborted(s) ==
    IF s.receiveErr = NoErr THEN [s EXCEPT !.receiveErr = TransportErr] ELSE s

\* Read up to the call of stream.Receive(): returns at once when isClosed is
\* set, and otherwise blocks in Receive.
ReadBegin ==
    /\ HasTokenStream
    /\ reading = "idle"
    /\ IF isClosed
       THEN LET out == Read(isClosed, stream[1])
            IN  /\ isClosed' = out.isClosed
                /\ stream' = <<out.stream>>
                /\ lastRead' = <<[val |-> out.val, err |-> out.err]>>
                /\ tokens' = IF out.err = NoErr THEN Append(tokens, out.val)
                             ELSE tokens
                /\ eofReturned' = (eofReturned \/ out.err = EOF)
                /\ valueAfterClose' =
                       (valueAfterClose \/ (closeReturned /\ out.err = NoErr))
                /\ lastOp' = "Read"
                /\ UNCHANGED reading
       ELSE /\ reading' = "receiving"
            /\ UNCHANGED <<isClosed, stream, lastRead, tokens, eofReturned,
                           valueAfterClose, lastOp>>
    /\ UNCHANGED <<options, client, clientErr, wire, unaryRes, script, ending,
                   ccsRes, lastClosed, lastClose, closeCalls, closing>>

\* Read from the return of stream.Receive() on.  The isClosed check was
\* passed in ReadBegin and is not repeated; after a Close the transport
\* either still delivers what was in flight or fails the call.
ReadEnd ==
    /\ HasTokenStream
    /\ reading = "receiving"
    /\ \E cut \in BOOLEAN :
         /\ cut => stream[1].closeRequests > 0
         /\ LET s == IF cut THEN Aborted(stream[1]) ELSE stream[1]
                out == Read(FALSE, s)
            IN  /\ isClosed' = (isClosed \/ out.isClosed)
                /\ stream' = <<out.stream>>
                /\ lastRead' = <<[val |-> out.val, err |-> out.err]>>
                /\ tokens' = IF out.err = NoErr THEN Append(tokens, out.val)
                             ELSE tokens
                /\ eofReturned' = (eofReturned \/ out.err = EOF)
                /\ valueAfterClose' =
                       (valueAfterClose \/ (closeReturned /\ out.err = NoErr))
    /\ reading' = "idle"
    /\ lastOp' = "Read"
    /\ UNCHANGED <<options, client, clientErr, wire, unaryRes, script, ending,
                   ccsRes, lastClosed, lastClose, closeCalls, closing>>

\* Close up to the call of stream.Close(): r.isClosed = true.
CloseBegin ==
    /\ HasTokenStream
    /\ closing = "idle"
    /\ closeCalls < MaxCloses
    /\ isClosed' = Close(isClosed, stream[1], NoErr).isClosed
    /\ closeCalls' = closeCalls + 1
    /\ closing' = "marked"
    /\ UNCHANGED <<options, client, clientErr, wire, unaryRes, script, ending,
                   stream, ccsRes, lastOp, lastRead, lastClosed, lastClose,
                   tokens, eofReturned, reading, valueAfterClose>>

\* The call of stream.Close(): the transport is asked to tear the stream
\* down, and Close waits for it.
CloseRequest ==
    /\ HasTokenStream
    /\ closing = "marked"
    /\ stream' = <<Close(isClosed, stream[1], NoErr).stream>>
    /\ closing' = "requested"
    /\ UNCHANGED <<options, client, clientErr, wire, unaryRes, script, ending,
                   ccsRes, isClosed, lastOp, lastRead, lastClosed, lastClose,
                   tokens, closeCalls, eofReturned, reading, valueAfterClose>>

\* The return of stream.Close(), whose result Close returns.
CloseEnd ==
    /\ HasTokenStream
    /\ closing = "requested"
    /\ \E teardown \in {NoErr, TeardownErr} :
         lastClose' = <<[err |-> Close(isClosed, stream[1], teardown).err,
                         teardown |-> teardown]>>
    /\ closing' = "idle"
    /\ lastOp' = "Close"
    /\ UNCHANGED <<options, client, clientErr, wire, unaryRes, script, ending,
                   stream, ccsRes, isClosed, lastRead, lastClosed, tokens,
                   closeCalls, eofReturned, reading, valueAfterClose>>

NextConc ==
    \/ DoNewClient
    \/ DoChatCompleteStream
    \/ ReadBegin
    \/ ReadEnd
    \/ CloseBegin
    \/ CloseRequest
    \/ CloseEnd
    \/ DoIsClosed

SpecConc == Init /\ [][NextConc]_vars
(***************************************************************************)
(* Claims.                                                                 *)
(***************************************************************************)

\* C1: once the stream is closed, by a Read that met exhaustion or by Close,
\* every later Read returns io.EOF with the zero value, whatever the
\* underlying stream would still deliver.
C1_ClosedReadYieldsEOF ==
    [][(HasTokenStream /\ isClosed /\ lastOp' = "Read")
         => lastRead' = <<EofResult>>]_vars

\* C1 witness: Close came while the server still had chunks to deliver, and a
\* Read after it returned io.EOF.
C1_Witness ==
    /\ HasTokenStream
    /\ closeCalled
    /\ lastOp = "Read"
    /\ lastRead = <<EofResult>>
    /\ stream[1].receiveErr = NoErr
    /\ stream[1].pos < Len(script)

\* C2 (as claimed): a Read during which the underlying stream stops on a
\* transport error returns that error, not io.EOF.
C2_ReadReturnsTransportError ==
    [][(/\ HasTokenStream
        /\ lastOp' = "Read"
        /\ stream[1].receiveErr = NoErr
        /\ stream'[1].receiveErr = TransportErr)
         => lastRead'[1].err = TransportErr]_vars

\* C3 (as claimed): when the call is set up and the first Receive stops on a
\* transport error, ChatCompleteStream returns that error and no response.
C3_FirstReadErrorPropagated ==
    (ccsRes # Nil /\ stream # Nil /\ script = <<>> /\ ending = TransportErr)
        => ccsRes = <<[resp |-> Nil, err |-> TransportErr]>>

\* C4 (as claimed): every request handed to the transport, unary or
\* streaming, carries x-api-key set to the Client's credential.
C4_EveryCallCarriesApiKey ==
    wire # Nil => wire[1].xApiKey = client[1].apiKey

\* The role and the textual content a chunk carries; both are empty in a
\* chunk without a Response message.
RoleOf(chunk) == IF chunk.Response = Nil THEN "" ELSE chunk.Response[1].Role
ContentOf(chunk) == IF chunk.Response = Nil THEN "" ELSE chunk.Response[1].Content

\* The textual contents of chunks from..to of the script.
ContentsOf(from, to) ==
    [i \in 1..(to - from + 1) |-> ContentOf(script[from + i - 1])]

\* C5 (as claimed): after a successful ChatCompleteStream over chunks c1..cn
\* the Role is that of c1; the values Read has returned are the contents of
\* c2.. in order with none skipped or repeated; without a Close, io.EOF
\* comes only after cn, and when the stream ends cleanly the Read that meets
\* the end has returned io.EOF after exactly the contents of c2..cn.
C5_RoleThenTokensInOrder ==
    HasTokenStream =>
        /\ Len(script) >= 1
        /\ ccsRes[1].resp[1].Role = RoleOf(script[1])
        /\ stream[1].pos >= 1
        /\ tokens = ContentsOf(2, stream[1].pos)
        /\ (eofReturned /\ ~closeCalled) => stream[1].pos = Len(script)
        /\ (ending = EOF /\ stream[1].receiveErr # NoErr) =>
               /\ eofReturned
               /\ tokens = ContentsOf(2, Len(script))

\* C6: when the call is set up and the underlying stream ends without any
\* element, ChatCompleteStream returns TruncatedStreamResponseError and nil.
C6_EmptyStreamIsTruncated ==
    (ccsRes # Nil /\ stream # Nil /\ script = <<>> /\ ending = EOF)
        => ccsRes = <<[resp |-> Nil, err |-> TruncatedStreamResponseError]>>

\* C6 witness: the call was set up over a stream that ended at once.
C6_Witness ==
    /\ ccsRes # Nil
    /\ stream # Nil
    /\ script = <<>>
    /\ ending = EOF
    /\ stream[1].receiveErr = EOF
    /\ ccsRes[1].err = TruncatedStreamResponseError

\* C7: NewClient returns (nil, MissingApiKeyError) exactly when ApiKey is
\* empty, and otherwise a non-nil Client and a nil error, whatever HttpClient
\* and BaseUrl are.
C7_NewClientValidatesOnlyApiKey ==
    options # Nil =>
        /\ (options[1].ApiKey = "")
               <=> (client = Nil /\ clientErr = MissingApiKeyError)
        /\ (options[1].ApiKey # "") <=> (client # Nil /\ clientErr = NoErr)

\* C7 witness: a key and nothing else supplied gave a Client.
C7_Witness ==
    /\ options # Nil
    /\ options[1].ApiKey # ""
    /\ options[1].HttpClient = Nil
    /\ options[1].BaseUrl = ""
    /\ client # Nil
    /\ clientErr = NoErr

\* C8: the TokenStream starts open, and once isClosed is true no step sets
\* it back to false.
C8_ClosedIsMonotone ==
    [][/\ (~HasTokenStream /\ HasTokenStream') => ~isClosed'
       /\ isClosed => isClosed']_vars

\* C8 witness: stream closed by Close with chunks left, then read again.
C8_Witness ==
    /\ HasTokenStream
    /\ isClosed
    /\ closeCalled
    /\ lastOp = "Read"
    /\ stream[1].pos < Len(script)
    /\ tokens # <<>>

\* C9: IsClosed is true exactly when Close has been called or some Read has
\* returned io.EOF.
C9_IsClosedIffCloseOrEOF ==
    /\ HasTokenStream => (IsClosed(isClosed) <=> (closeCalled \/ eofReturned))
    /\ lastOp = "IsClosed" => (lastClosed[1] <=> (closeCalled \/ eofReturned))

\* C9 witness: IsClosed returned false after a Read that returned an element.
C9_Witness ==
    /\ HasTokenStream
    /\ lastOp = "IsClosed"
    /\ lastClosed = <<FALSE>>
    /\ lastRead # Nil
    /\ lastRead[1].err = NoErr

\* C10: Close leaves the stream closed and returns exactly what the teardown
\* reported; a teardown error neither prevents nor undoes the closing.
C10_CloseAlwaysCloses ==
    /\ closeCalled => isClosed
    /\ lastOp = "Close" => (isClosed /\ lastClose[1].err = lastClose[1].teardown)

\* C10 witness: Close returned the teardown error and the stream is closed.
C10_Witness ==
    /\ lastOp = "Close"
    /\ lastClose[1].err = TeardownErr
    /\ isClosed
\* C11: a Close on a stream that Close has already closed leaves the wrapper
\* as the first Close left it: closed before the call and closed after it.
C11_SecondCloseKeepsState ==
    [][(HasTokenStream /\ closeCalled /\ closeCalls' = closeCalls + 1)
         => (isClosed /\ isClosed' = isClosed)]_vars

\* C11 witness: Close has returned twice and the stream is closed.
C11_Witness ==
    /\ HasTokenStream
    /\ closeCalls = 2
    /\ lastOp = "Close"
    /\ isClosed

\* C12: a call of IsClosed changes neither the closed flag nor the
\* underlying stream, it returns the flag, and with no Read or Close in
\* between two calls return the same, whatever the transport has done.
C12_IsClosedObservesOnly ==
    [][lastOp' = "IsClosed" =>
         /\ isClosed' = isClosed
         /\ stream' = stream
         /\ lastClosed' = <<isClosed>>
         /\ lastOp = "IsClosed" => lastClosed' = lastClosed]_vars

\* C12 witness: the server has sent everything and ended, no Read has met the
\* end yet, and IsClosed returned false.
C12_Witness ==
    /\ HasTokenStream
    /\ lastOp = "IsClosed"
    /\ lastClosed = <<FALSE>>
    /\ stream[1].pos = Len(script)
    /\ stream[1].receiveErr = NoErr
    /\ tokens # <<>>

\* C13: a unary operation returns the RPC layer's error unchanged with a nil
\* payload, or the inner message with a nil error; never both a payload and
\* an error; and it issues one request.
C13_UnaryPassThrough ==
    unaryRes # Nil =>
        LET ret == unaryRes[1].ret
            rpc == unaryRes[1].rpc
        IN  /\ rpc.err # NoErr => (ret.err = rpc.err /\ ret.msg = Nil)
            /\ rpc.err = NoErr => (ret.err = NoErr /\ ret.msg = rpc.res[1].Msg)
            /\ ~(ret.msg # Nil /\ ret.err # NoErr)
            /\ (wire[1].proc = ret.proc) => Len(wire) = 1

\* C13 witness: Transcribe met a remote fault and returned it with no payload.
C13_Witness ==
    /\ unaryRes # Nil
    /\ unaryRes[1].ret.proc = "Transcribe"
    /\ unaryRes[1].rpc.err = RemoteErr
    /\ unaryRes[1].ret = [proc |-> "Transcribe", msg |-> Nil, err |-> RemoteErr]
\* C14: a Read on a closed stream leaves the underlying stream as it was: no
\* element is consumed and nothing else about it changes.
C14_ClosedReadLeavesStream ==
    [][(HasTokenStream /\ isClosed /\ lastOp' = "Read") => stream' = stream]_vars

\* C14 witness: closed by Close right after the first chunk of three; a Read
\* then returned io.EOF and the stream still stands after the first chunk.
C14_Witness ==
    /\ HasTokenStream
    /\ isClosed
    /\ Len(script) = 3
    /\ stream[1].pos = 1
    /\ stream[1].receiveErr = NoErr
    /\ lastOp = "Read"
    /\ lastRead = <<EofResult>>
    /\ tokens = <<>>

\* C15: when ChatCompleteStream returns a response, exactly one element has
\* been consumed, the Role is that element's, and the TokenStream is open and
\* stands at the second element: the first Read consumes that element, and
\* returns its content when it carries a Response.
C15_OneElementThenStreaming ==
    [][/\ (~HasTokenStream /\ HasTokenStream') =>
             /\ stream'[1].pos = 1
             /\ stream'[1].receiveErr = NoErr
             /\ script[1].Response # Nil
             /\ ccsRes'[1].resp[1].Role = script[1].Response[1].Role
             /\ ~isClosed'
             /\ tokens' = <<>>
       /\ (HasTokenStream /\ lastOp = "none" /\ lastOp' = "Read"
             /\ Len(script) >= 2) =>
             /\ stream'[1].pos = 2
             /\ script[2].Response # Nil =>
                    lastRead' = <<[val |-> script[2].Response[1].Content,
                                   err |-> NoErr]>>]_vars

\* C15 witness: the response was returned over two chunks or more and the
\* first Read has returned the second chunk's content.
C15_Witness ==
    /\ HasTokenStream
    /\ Len(script) >= 2
    /\ script[2].Response # Nil
    /\ ContentOf(script[1]) # ContentOf(script[2])
    /\ lastOp = "Read"
    /\ stream[1].pos = 2
    /\ tokens = <<ContentOf(script[2])>>
    /\ closeCalls = 0

\* C17 (as claimed): when ChatCompleteStream returns an error after the call
\* was set up, the underlying stream has been asked to close.
C17_NoLeakOnError ==
    (ccsRes # Nil /\ ccsRes[1].err \notin {NoErr, Panic} /\ stream # Nil)
        => stream[1].closeRequests >= 1

\* C19: the transport is asked to terminate the stream once per Close call
\* and never by Read: the requests made equal the Close calls, also when a
\* Read closed the stream by exhaustion and when the stream was closed
\* before the Close; and Close returns what that request reported.
C19_OneTerminationPerClose ==
    /\ stream # Nil => stream[1].closeRequests = closeCalls
    /\ lastOp = "Close" => lastClose[1].err = lastClose[1].teardown

\* C19 witness: a Read met exhaustion and closed the stream unasked; two
\* Close calls followed, each forwarded, the last reporting a teardown error.
C19_Witness ==
    /\ HasTokenStream
    /\ stream[1].receiveErr # NoErr
    /\ closeCalls = 2
    /\ stream[1].closeRequests = 2
    /\ lastOp = "Close"
    /\ lastClose[1].err = TeardownErr
\* C16 (as claimed): over a stream that delivers its chunks and then ends, a caller that
\* keeps calling Read receives io.EOF in the end; the stream is closed from
\* that Read on; and without a Close, one value per remaining chunk came
\* before it.
C16_KeepReadingReachesEOF ==
    /\ (HasTokenStream /\ ending = EOF) ~> eofReturned
    /\ [](eofReturned => isClosed)
    /\ []((eofReturned /\ ~closeCalled) =>
              (HasTokenStream /\ Len(tokens) = Len(script) - 1))

\* C18 (as claimed): with Close called while a Read is blocked in Receive, no
\* Read returns an element after that Close has returned.
C18_NoValueAfterClose == ~valueAfterClose

\* C18 (amended): a Read that starts after Close has returned yields io.EOF
\* at once and leaves the underlying stream alone, and so does a Read that
\* starts while Close is between setting isClosed and its return; the Read
\* that was blocked in Receive when Close ran is not held back: a value it
\* returns is the next chunk's content.
C18_ReadStartedAfterCloseYieldsEOF ==
    [][/\ ((closeReturned \/ closing # "idle") /\ ReadBegin) =>
             /\ reading' = "idle"
             /\ lastRead' = <<EofResult>>
             /\ stream' = stream
       /\ (closeReturned /\ ReadEnd /\ lastRead'[1].err = NoErr) =>
             /\ stream[1].pos < Len(script)
             /\ lastRead'[1].val = ContentOf(script[stream[1].pos + 1])]_vars

\* C18 witness: a Read blocked in Receive returned an element after Close had
\* returned, and the Read started after it returned io.EOF with chunks left.
C18_Witness ==
    /\ HasTokenStream
    /\ valueAfterClose
    /\ reading = "idle"
    /\ lastOp = "Read"
    /\ lastRead = <<EofResult>>
    /\ stream[1].receiveErr = NoErr
    /\ stream[1].pos < Len(script)
====
